---- MODULE Spec2Model ----
(***************************************************************************)
(* Model of src/hmm.py: the class HiddenMarkovModel (Python 2.7), a        *)
(* Viterbi tagger over a lattice v of HMMNode cells.  One model object is  *)
(* constructed from (words, tag_set, transi_matrix, cs_model); the caller  *)
(* then invokes gen_tags(), viterbi() or retrace() on it, one at a time.   *)
(*                                                                         *)
(* Numbers: probabilities and log-probabilities are fixed-point integers   *)
(* in units of 10^-6 (0.25 is 250000, math.log(0.5) is -693147).  The      *)
(* probabilities used are dyadic, so every float sum the code forms in     *)
(* the modelled runs is exact and the integer sums order and tie as the    *)
(* floats do.                                                              *)
(***************************************************************************)
EXTENDS Integers, Sequences, FiniteSets, TLC

VARIABLES
    words,          \* self.words
    tag_set,        \* self.tag_set
    transi_matrix,  \* self.transi_matrix : dict of dict
    cs_model,       \* self.cs_model : the emission source
    v,              \* self.v : the lattice, v[i+1][t+1] is Python's v[i][t]
    pc,             \* position of the caller / of the running method
    mode,           \* the public method the caller invoked last
    calls,          \* number of method calls made on the object
    outcome,        \* how the last call ended
    k,              \* viterbi: index of the loop of line 100
    wordi,          \* viterbi: index of the loop of line 103
    tagi,           \* viterbi: index of the loop of line 106
    old_tagi,       \* viterbi: index of the loop of line 109
    tran_prob,      \* viterbi: the candidate list of line 108
    nextnode,       \* viterbi: result of the reduce of line 113
    last,           \* retrace: result of the reduce of line 130
    rd,             \* last lattice cell read by line 110, <<row, col>>
    writes,         \* per cell, assignments made by the current call
    genDone,        \* number of gen_tags() calls that have ended
    first           \* lattice and outcome at the end of the first gen_tags()

vars == <<words, tag_set, transi_matrix, cs_model, v, pc, mode, calls,
          outcome, k, wordi, tagi, old_tagi, tran_prob, nextnode, last, rd,
          writes, genDone, first>>

inputs == <<words, tag_set, transi_matrix, cs_model>>

(***************************************************************************)
(* Bounds of the model.                                                    *)
(***************************************************************************)
MaxWords == 2
MaxTags == 2
MaxCalls == 2

TagNames == <<"A", "B", "C", "D">>
TagUniverse == {TagNames[i] : i \in 1..MaxTags}
WordNames == {"w1", "w2"}
Probs == {250000, 750000}

\* math.log(0.5), line 101, in units of 10^-6
LOG_HALF == -693147

(***************************************************************************)
(* Python values.                                                          *)
(***************************************************************************)
\* class HMMNode: the two attributes set by __init__
HMMNode(prob, p_tag) == [prob |-> prob, p_tag |-> p_tag]

\* a Python value that is either an int or an HMMNode instance
PyInt(i) == [ty |-> "int", int |-> i, node |-> HMMNode(0, 0)]
PyInstance(n) == [ty |-> "instance", int |-> 0, node |-> n]

\* result of evaluating an expression: a value or a raised exception
Ok(x) == [ok |-> TRUE, val |-> x, exc |-> ""]
Exc(e) == [ok |-> FALSE, val |-> 0, exc |-> e]

\* how a call ended
Pending == [kind |-> "pending", exc |-> "", value |-> <<>>]
Raised(e) == [kind |-> "raise", exc |-> e, value |-> <<>>]
ReturnedNone == [kind |-> "return_none", exc |-> "", value |-> <<>>]

\* Python list index: a negative index counts from the end
PyIdx(n, i) == IF i < 0 THEN i + n ELSE i

(***************************************************************************)
(* The inputs a caller may pass to the constructor.                        *)
(***************************************************************************)
SeqsUpTo(S, n) == UNION {[1..m -> S] : m \in 0..n}

\* the tag vocabulary fixes the index of each tag; names carry no meaning,
\* so the vocabularies are the prefixes of TagNames
TagSets == {SubSeq(TagNames, 1, m) : m \in 0..MaxTags}

\* dict<str -> dict<str -> float>>, possibly lacking rows or columns
Matrices == UNION {[R -> [C -> Probs]] : R \in SUBSET TagUniverse, C \in SUBSET TagUniverse}

\* the emission source: the words it can score
CsModels == {[known |-> WordNames], [known |-> {"w1"}]}

\* CodeSModel.prob(tag, word) of the module cs_model
cs_model_prob(tag, word) ==
    IF word \in cs_model.known
    THEN Ok(IF (tag = TagNames[1]) = (word = "w1") THEN 750000 ELSE 250000)
    ELSE Exc("LookupError")

(***************************************************************************)
(* Lookup helpers.                                                         *)
(***************************************************************************)
\* the method em with the undefined name ctx replaced by its parameter lang
em_lang(lang, word) == cs_model_prob(lang, word)

\* em, lines 52-67: the argument ctx is neither a local of em nor a module
\* global, so evaluating the call's arguments raises NameError before
\* cs_model.prob is entered
em(lang, word) == Exc("NameError")

\* tr, lines 69-84: transi_matrix[ctx][tag], KeyError on a missing key
tr(ctx, tag) ==
    IF ctx \in DOMAIN transi_matrix /\ tag \in DOMAIN transi_matrix[ctx]
    THEN Ok(transi_matrix[ctx][tag])
    ELSE Exc("KeyError")

(***************************************************************************)
(* The two reduce() folds.                                                 *)
(***************************************************************************)
\* lambda n1, n2: n1 if n1.prob > n2.prob else n2   (line 114)
PickNode(n1, n2) == IF n1.prob > n2.prob THEN n1 ELSE n2

RECURSIVE FoldNodes(_, _, _)
FoldNodes(acc, s, i) ==
    IF i > Len(s) THEN acc ELSE FoldNodes(PickNode(acc, s[i]), s, i + 1)

\* reduce(lambda, tran_prob), lines 113-115; tran_prob is never empty here
ReduceNodes(s) == FoldNodes(s[1], s, 2)

\* lambda x, y: x if v[len(words)-1][x].prob > v[len(words)-1][y].prob else y
PickIndex(x, y) ==
    LET row == v[PyIdx(Len(v), Len(words) - 1) + 1]
    IN  IF row[x + 1].prob > row[y + 1].prob THEN x ELSE y

RECURSIVE FoldIndex(_, _)
FoldIndex(acc, i) ==
    IF i >= Len(tag_set) THEN acc ELSE FoldIndex(PickIndex(acc, i), i + 1)

\* reduce(lambda, xrange(len(tag_set))), lines 130-132
ReduceLast ==
    IF Len(tag_set) = 0 THEN Exc("TypeError")
    ELSE IF Len(tag_set) = 1 THEN Ok(0)
    ELSE IF Len(words) = 0 THEN Exc("IndexError")
    ELSE Ok(FoldIndex(0, 1))

(***************************************************************************)
(* The backward walk, lines 135-140.                                       *)
(***************************************************************************)
\* one pass through "while prev != -1": the body indexes tag_set with prev,
\* then reads the undefined name k
WalkLoop(prev) ==
    IF prev = PyInt(-1) THEN ReturnedNone
    ELSE IF prev.ty # "int" THEN Raised("TypeError")
    ELSE IF PyIdx(Len(tag_set), prev.int) \notin 0..(Len(tag_set) - 1)
         THEN Raised("IndexError")
    ELSE Raised("NameError")

\* prev = self.v[-1][last], then the loop
RetraceWalkOutcome ==
    IF Len(v) = 0 THEN Raised("IndexError")
    ELSE WalkLoop(PyInstance(v[Len(v)][last + 1]))

(***************************************************************************)
(* State.                                                                  *)
(***************************************************************************)
NoRead == <<-1, -1>>
NoFirst == [set |-> FALSE, v |-> <<>>, outcome |-> Pending]
ZeroWrites == [i \in 1..Len(words) |-> [j \in 1..Len(tag_set) |-> 0]]

Init ==
    /\ words \in SeqsUpTo(WordNames, MaxWords)
    /\ tag_set \in TagSets
    /\ transi_matrix \in Matrices
    /\ cs_model \in CsModels
    /\ v = <<>>
    /\ pc = "new"
    /\ mode = "none"
    /\ calls = 0
    /\ outcome = Pending
    /\ k = 0 /\ wordi = 0 /\ tagi = 0 /\ old_tagi = 0
    /\ tran_prob = <<>>
    /\ nextnode = HMMNode(0, 0)
    /\ last = 0
    /\ rd = NoRead
    /\ writes = <<>>
    /\ genDone = 0
    /\ first = NoFirst

\* the locals of a method vanish when it ends
ResetLocals ==
    /\ k' = 0 /\ wordi' = 0 /\ tagi' = 0 /\ old_tagi' = 0
    /\ tran_prob' = <<>>
    /\ nextnode' = HMMNode(0, 0)
    /\ last' = 0

\* a call of the public method m ends with outcome out, leaving the lattice
\* lattice
EndCallOf(m, out, lattice) ==
    /\ pc' = "idle"
    /\ outcome' = out
    /\ v' = lattice
    /\ genDone' = IF m = "gen_tags" THEN genDone + 1 ELSE genDone
    /\ first' = IF m = "gen_tags" /\ ~first.set
                THEN [set |-> TRUE, v |-> lattice, outcome |-> out]
                ELSE first
    /\ ResetLocals

\* the running call ends
EndCall(out, lattice) == EndCallOf(mode, out, lattice)

\* __init__, lines 34-40: no validation; the lattice of HMMNode(0, 0)
Construct ==
    /\ pc = "new"
    /\ v' = [i \in 1..Len(words) |-> [j \in 1..Len(tag_set) |-> HMMNode(0, 0)]]
    /\ writes' = ZeroWrites
    /\ pc' = "idle"
    /\ UNCHANGED <<inputs, mode, calls, outcome, k, wordi, tagi, old_tagi,
                   tran_prob, nextnode, last, rd, genDone, first>>

\* gen_tags, lines 42-50: enters viterbi; with an empty tag_set every loop
\* of viterbi has no iteration and retrace is entered
CallGenTags ==
    /\ pc = "idle"
    /\ calls < MaxCalls
    /\ calls' = calls + 1
    /\ mode' = "gen_tags"
    /\ outcome' = Pending
    /\ writes' = ZeroWrites
    /\ rd' = NoRead
    /\ pc' = IF Len(tag_set) = 0 THEN "retrace_last" ELSE "v_init"
    /\ UNCHANGED <<inputs, v, k, wordi, tagi, old_tagi, tran_prob, nextnode,
                   last, genDone, first>>

\* a direct call of the public method viterbi, lines 86-118: with an empty
\* tag_set no loop has an iteration and the method returns None at once
CallViterbi ==
    /\ pc = "idle"
    /\ calls < MaxCalls
    /\ calls' = calls + 1
    /\ mode' = "viterbi"
    /\ writes' = ZeroWrites
    /\ rd' = NoRead
    /\ IF Len(tag_set) = 0
       THEN EndCallOf("viterbi", ReturnedNone, v)
       ELSE /\ outcome' = Pending
            /\ pc' = "v_init"
            /\ UNCHANGED <<v, k, wordi, tagi, old_tagi, tran_prob, nextnode,
                           last, genDone, first>>
    /\ UNCHANGED <<inputs>>

\* a direct call of the public method retrace
CallRetrace ==
    /\ pc = "idle"
    /\ calls < MaxCalls
    /\ calls' = calls + 1
    /\ mode' = "retrace"
    /\ outcome' = Pending
    /\ writes' = ZeroWrites
    /\ rd' = NoRead
    /\ pc' = "retrace_last"
    /\ UNCHANGED <<inputs, v, k, wordi, tagi, old_tagi, tran_prob, nextnode,
                   last, genDone, first>>

\* the lattice with cell (i, t) replaced
WithCell(i, t, node) == [v EXCEPT ![i + 1][t + 1] = node]
Counted(i, t) == [writes EXCEPT ![i + 1][t + 1] = @ + 1]

\* viterbi, lines 100-101: self.v[0][k] = HMMNode(math.log(0.5), -1)
InitRow0 ==
    /\ pc = "v_init"
    /\ IF Len(v) = 0
       THEN /\ EndCall(Raised("IndexError"), v)
            /\ UNCHANGED <<writes>>
       ELSE /\ v' = WithCell(0, k, HMMNode(LOG_HALF, -1))
            /\ writes' = Counted(0, k)
            /\ k' = k + 1
            /\ pc' = IF k + 1 < Len(tag_set) THEN "v_init" ELSE "cand"
            /\ UNCHANGED <<outcome, wordi, tagi, old_tagi, tran_prob,
                           nextnode, last, genDone, first>>
    /\ UNCHANGED <<inputs, mode, calls, rd>>

\* viterbi, lines 109-111: one candidate, from the cell v[wordi - 1][old_tagi]
Candidate ==
    /\ pc = "cand"
    /\ LET row == PyIdx(Len(v), wordi - 1)
           left == v[row + 1][old_tagi + 1].prob
           t == tr(tag_set[old_tagi + 1], tag_set[tagi + 1])
       IN  /\ rd' = <<row, old_tagi>>
           /\ IF ~t.ok
              THEN EndCall(Raised(t.exc), v)
              ELSE /\ tran_prob' = Append(tran_prob, HMMNode(left + t.val, old_tagi))
                   /\ old_tagi' = old_tagi + 1
                   /\ pc' = IF old_tagi + 1 < Len(tag_set) THEN "cand" ELSE "reduce"
                   /\ UNCHANGED <<v, outcome, k, wordi, tagi, nextnode, last,
                                  genDone, first>>
    /\ UNCHANGED <<inputs, mode, calls, writes>>

\* viterbi, lines 113-115: the candidate with the highest prob
Reduce ==
    /\ pc = "reduce"
    /\ nextnode' = ReduceNodes(tran_prob)
    /\ pc' = "emit"
    /\ UNCHANGED <<inputs, v, mode, calls, outcome, k, wordi, tagi, old_tagi,
                   tran_prob, last, rd, writes, genDone, first>>

\* viterbi, lines 116-118 and the loop heads 103, 106: the emission lookup,
\* the assignment of the cell and the move to the next cell
Emit ==
    /\ pc = "emit"
    /\ LET e == em(tag_set[tagi + 1], words[wordi + 1])
           lattice == WithCell(wordi, tagi, HMMNode(e.val + nextnode.prob, nextnode.p_tag))
       IN  IF ~e.ok
           THEN /\ EndCall(Raised(e.exc), v)
                /\ UNCHANGED <<writes>>
           ELSE /\ writes' = Counted(wordi, tagi)
                /\ IF tagi + 1 < Len(tag_set) \/ wordi + 1 < Len(words)
                      \/ mode = "gen_tags"
                   THEN /\ v' = lattice
                        /\ tran_prob' = <<>>
                        /\ old_tagi' = 0
                        /\ tagi' = IF tagi + 1 < Len(tag_set) THEN tagi + 1 ELSE 0
                        /\ wordi' = IF tagi + 1 < Len(tag_set) THEN wordi
                                     ELSE wordi + 1
                        /\ pc' = IF tagi + 1 < Len(tag_set)
                                    \/ wordi + 1 < Len(words)
                                 THEN "cand" ELSE "retrace_last"
                        /\ UNCHANGED <<outcome, k, nextnode, last, genDone,
                                       first>>
                   ELSE EndCall(ReturnedNone, lattice)
    /\ UNCHANGED <<inputs, mode, calls, rd>>

\* retrace, lines 127-132: the most probable final tag
RetraceLast ==
    /\ pc = "retrace_last"
    /\ LET r == ReduceLast
       IN  IF ~r.ok
           THEN EndCall(Raised(r.exc), v)
           ELSE /\ last' = r.val
                /\ pc' = "retrace_walk"
                /\ UNCHANGED <<v, outcome, k, wordi, tagi, old_tagi, tran_prob,
                               nextnode, genDone, first>>
    /\ UNCHANGED <<inputs, mode, calls, rd, writes>>

\* retrace, lines 134-140: the walk along the back pointers and the return
RetraceWalk ==
    /\ pc = "retrace_walk"
    /\ EndCall(RetraceWalkOutcome, v)
    /\ UNCHANGED <<inputs, mode, calls, rd, writes>>

Next ==
    \/ Construct
    \/ CallGenTags
    \/ CallViterbi
    \/ CallRetrace
    \/ InitRow0
    \/ Candidate
    \/ Reduce
    \/ Emit
    \/ RetraceLast
    \/ RetraceWalk

Spec == Init /\ [][Next]_vars

(***************************************************************************)
(* Vocabulary of the properties.                                           *)
(***************************************************************************)
Range(s) == {s[i] : i \in DOMAIN s}
TagIdx == 0..(Len(tag_set) - 1)

\* natural logarithm, in units of 10^-6, of the probabilities of the model
Log(p) == CASE p = 250000 -> -1386294
            [] p = 500000 -> -693147
            [] p = 750000 -> -287682
            [] p = 1000000 -> 0

\* log(1 / n), in units of 10^-6
LogUniform(n) == CASE n = 1 -> 0
                   [] n = 2 -> -693147
                   [] n = 3 -> -1098612
                   [] n = 4 -> -1386294

MatrixCovers == \A s \in Range(tag_set) : \A t \in Range(tag_set) : tr(s, t).ok
CanScoreAll ==
    \A i \in DOMAIN words : \A t \in Range(tag_set) : cs_model_prob(t, words[i]).ok
Valid == Len(words) >= 1 /\ Len(tag_set) >= 1 /\ MatrixCovers /\ CanScoreAll
Malformed == Len(words) = 0 \/ Len(tag_set) = 0 \/ ~MatrixCovers

InForwardPass == pc \in {"v_init", "cand", "reduce", "emit"}
InCell == pc \in {"cand", "reduce", "emit"}
InRetrace == pc \in {"retrace_last", "retrace_walk"}
GenTagsEnded == pc = "idle" /\ mode = "gen_tags"

\* the lowest index among the entries of s with the highest prob
LowestArgmax(s) ==
    CHOOSE i \in 0..(Len(s) - 1) :
        /\ \A j \in 0..(Len(s) - 1) : s[j + 1].prob <= s[i + 1].prob
        /\ \A j \in 0..(i - 1) : s[j + 1].prob < s[i + 1].prob
HasTie(s) ==
    \E i, j \in 1..Len(s) :
        /\ i # j
        /\ s[i].prob = s[j].prob
        /\ \A m \in 1..Len(s) : s[m].prob <= s[i].prob

\* score of a tag path: the uniform prior plus, for the positions after the
\* first, log transition plus log emission
RECURSIVE PathSum(_, _)
PathSum(p, i) ==
    IF i > Len(p) THEN 0
    ELSE Log(tr(p[i - 1], p[i]).val) + Log(cs_model_prob(p[i], words[i]).val)
         + PathSum(p, i + 1)
PathScore(p) == LogUniform(Len(tag_set)) + PathSum(p, 2)
Paths == [1..Len(words) -> Range(tag_set)]
BestPaths == {p \in Paths : \A q \in Paths : PathScore(q) <= PathScore(p)}

(***************************************************************************)
(* Properties.                                                             *)
(***************************************************************************)
\* C1: for every valid input, gen_tags() returns a sequence of tags of
\* length len(words), each element a member of tag_set.
C1_LengthAndMembership ==
    (GenTagsEnded /\ Valid) =>
        /\ outcome.kind = "return_list"
        /\ Len(outcome.value) = Len(words)
        /\ \A i \in DOMAIN outcome.value : outcome.value[i] \in Range(tag_set)

\* C2: for every valid input, the tag sequence returned by gen_tags() has
\* the maximal total score among all |tags|^n tag paths.
C2_MaximalPath ==
    (GenTagsEnded /\ Valid) =>
        /\ outcome.kind = "return_list"
        /\ outcome.value \in BestPaths

\* C3: a configuration with an empty word sequence, an empty tag vocabulary
\* or a transition table lacking a vocabulary pair is rejected by the
\* constructor with a ConfigurationError and never reaches the forward pass.
C3_ConfigurationError ==
    Malformed =>
        /\ pc = "new" \/ outcome = Raised("ConfigurationError")
        /\ ~InForwardPass

\* C4: on an exact tie for the maximum the lowest tag index is selected,
\* both by the source-tag argmax of a cell in the forward pass and by the
\* selection of the final-row cell at the start of the retrace.
C4_LowestIndexOnTies ==
    /\ (pc = "emit" /\ HasTie(tran_prob)) =>
            nextnode.p_tag = tran_prob[LowestArgmax(tran_prob) + 1].p_tag
    /\ (pc = "retrace_walk" /\ Len(v) > 0 /\ HasTie(v[Len(v)])) =>
            last = LowestArgmax(v[Len(v)])

\* C5: every gen_tags() call on the same model object ends with the same
\* lattice contents and the same outcome as the first one did.
C5_Deterministic ==
    (pc = "idle" /\ genDone >= 1) =>
        /\ v = first.v
        /\ (mode = "gen_tags" => outcome = first.outcome)

\* C5 witness: a second gen_tags() call on a valid model, of two words and
\* two tags, has ended.
C5_Witness ==
    GenTagsEnded /\ genDone >= 2 /\ Valid /\ Len(words) = 2 /\ Len(tag_set) = 2

\* C6: when the emission source cannot score a (tag, word) pair of the
\* input, gen_tags() absorbs the failure and still returns a tag sequence.
C6_EmissionFailureAbsorbed ==
    (GenTagsEnded /\ Len(words) >= 1 /\ Len(tag_set) >= 1 /\ MatrixCovers
        /\ ~CanScoreAll) =>
        /\ outcome.kind = "return_list"
        /\ Len(outcome.value) = Len(words)

\* C8: once the forward pass is past the initialisation of row 0, and when
\* it has ended, every cell of row 0 holds log(1/|tags|) and the
\* no-predecessor sentinel.
C8_UniformPrior ==
    (InCell \/ (GenTagsEnded /\ Len(words) >= 1 /\ Len(tag_set) >= 1)) =>
        \A t \in TagIdx : v[1][t + 1] = HMMNode(LogUniform(Len(tag_set)), -1)

\* C9: during one gen_tags() run each cell is assigned exactly once by the
\* forward pass and never replaced afterwards, and the backward pass leaves
\* every cell unchanged.
C9_WriteOnce ==
    /\ [](\A i \in DOMAIN writes : \A t \in DOMAIN writes[i] : writes[i][t] <= 1)
    /\ []((GenTagsEnded /\ Valid) =>
            \A i \in DOMAIN writes : \A t \in DOMAIN writes[i] : writes[i][t] = 1)
    /\ [][InRetrace => v' = v]_vars

\* C10: the forward pass computes a cell (i, t) only for i from 1 to n-1 and
\* reads only cells of row i-1, each already assigned by this forward pass.
C10_ReadsPreviousRow ==
    /\ InCell => wordi \in 1..(Len(words) - 1)
    /\ (pc \in {"reduce", "emit"}) =>
            /\ rd[1] = wordi - 1
            /\ writes[rd[1] + 1][rd[2] + 1] = 1

(***************************************************************************)
(* Supporting invariants.                                                  *)
(***************************************************************************)
\* every back pointer held by the lattice is the sentinel -1 or an index of
\* the tag vocabulary
BackPointersInRange ==
    \A i \in DOMAIN v : \A t \in DOMAIN v[i] : v[i][t].p_tag \in {-1} \cup TagIdx

\* the forward argmax alone: on a tie the lowest source index
ForwardLowestOnTies ==
    (pc = "emit" /\ HasTie(tran_prob)) =>
        nextnode.p_tag = tran_prob[LowestArgmax(tran_prob) + 1].p_tag

====
